---- MODULE Spec2Model ----
(***************************************************************************)
(* A model of the friend-chat client src/src/App.jsx and of the document   *)
(* store it talks to.  The store is the record db (one field per           *)
(* collection); every browser session is a client with the component's     *)
(* React state.  An async handler is cut at each await: every piece        *)
(* between two awaits is one action, and the values the handler's closure  *)
(* captured when it was invoked are kept in the call's record.             *)
(*                                                                         *)
(* Scope: store reads (getDoc, getDocs) succeed; the writes that may fail  *)
(* are the accept batch and the two registration writes.  A client has at  *)
(* most one sendFriendRequest call and one registration in flight.  The    *)
(* auth listener runs in the step of the sign-in, sign-out or account      *)
(* creation that triggers it.                                              *)
(***************************************************************************)
EXTENDS Integers, Sequences, FiniteSets, TLC

\* ---------------------------------------------------------------- bounds
NumAccounts == 2
NumClients == 2
MaxMessages == 2
MaxInFlight == 1

Uids == 1..NumAccounts
NoUid == 0
Emails == 1..NumAccounts
Clients == 1..NumClients

\* The browser whose sessions SpecSession follows.
SessionClients == {1}

\* ------------------------------------------------------- text and handles
\* Text is a sequence of one-character strings.
Lower(ch) == CASE ch = "A" -> "a" [] ch = "B" -> "b" [] ch = "C" -> "c" [] ch = "D" -> "d"
               [] OTHER -> ch

IsSpace(ch) == ch = " "

RECURSIVE TrimLeft(_)
TrimLeft(s) == IF s = << >> THEN s ELSE IF IsSpace(Head(s)) THEN TrimLeft(Tail(s)) ELSE s

RECURSIVE TrimRight(_)
TrimRight(s) ==
  IF s = << >> THEN s
  ELSE IF IsSpace(s[Len(s)]) THEN TrimRight(SubSeq(s, 1, Len(s) - 1)) ELSE s

\* String.prototype.trim
Trim(s) == TrimRight(TrimLeft(s))

\* String.prototype.toLowerCase
ToLowerCase(s) == [i \in 1..Len(s) |-> Lower(s[i])]

normalizedUsername(username) == ToLowerCase(Trim(username))

normalizedSearchName(searchName) == ToLowerCase(Trim(searchName))

trimmedName(fixed) == Trim(fixed)

trimmedDraft(draft) == Trim(draft)

LetterOf(u) == CASE u = 1 -> "a" [] u = 2 -> "b" [] u = 3 -> "c" [] OTHER -> "d"

CapitalOf(u) == CASE u = 1 -> "A" [] u = 2 -> "B" [] u = 3 -> "C" [] OTHER -> "D"

\* The handle under which account u of the populated store is registered.
HandleOf(u) == << LetterOf(u) >>

\* What a user may type into the username and the search field: nothing, blanks,
\* a handle, or a handle in capitals with blanks around it.
RawNames ==
  { << >>, <<" ">> } \cup { HandleOf(u) : u \in Uids }
    \cup { <<" ", CapitalOf(u), " ">> : u \in Uids }

\* What a user may type into the message field.
RawDrafts == { << >>, <<" ", " ">>, <<"h">>, <<" ", "h", " ">> }

Handles == { normalizedUsername(r) : r \in RawNames } \ { << >> }

EmptyText == << >>

CharRank(ch) == CASE ch = " " -> 0 [] ch = "A" -> 1 [] ch = "B" -> 2 [] ch = "C" -> 3
                  [] ch = "D" -> 4 [] ch = "a" -> 5 [] ch = "b" -> 6 [] ch = "c" -> 7
                  [] ch = "d" -> 8 [] OTHER -> 9

\* Lexicographic order of two texts, as the store orders string fields.
RECURSIVE TextLess(_, _)
TextLess(s, t) ==
  IF t = << >> THEN FALSE
  ELSE IF s = << >> THEN TRUE
  ELSE IF CharRank(Head(s)) # CharRank(Head(t)) THEN CharRank(Head(s)) < CharRank(Head(t))
  ELSE TextLess(Tail(s), Tail(t))

\* --------------------------------------------------------------- channel id
Min(a, b) == IF a <= b THEN a ELSE b

Max(a, b) == IF a <= b THEN b ELSE a

\* A channel id that keeps the two ids in the order they are given in.
GetChatIdUnsorted(uidA, uidB) == << uidA, uidB >>

\* [uidA, uidB].sort().join("__"): the two ids in ascending order.
getChatId(uidA, uidB) == << Min(uidA, uidB), Max(uidA, uidB) >>

ChatIds == { getChatId(a, b) : a \in Uids, b \in Uids }

\* `${fromUid}__${toUid}`
RequestId(fromUid, toUid) == << fromUid, toUid >>

RequestIds == Uids \X Uids

\* ------------------------------------------------------------------- state
VARIABLES
  db,               \* the document store, one field per collection
  auth,             \* the authentication collaborator: email -> uid (0: none)
  currentUser,      \* per client: uid of the signed-in account (0: none)
  fixedUsername,    \* per client: the session handle
  friends,          \* per client: the last friend-list snapshot (a sequence)
  incomingRequests, \* per client: the last pending-requests snapshot (a set)
  activeFriend,     \* per client: the selected friend (uid 0: none)
  messages,         \* per client: the last message snapshot (a sequence)
  friendError,      \* per client: the add-friend error line
  authError,        \* per client: the sign-in form's error line
  profileLoads,     \* per client: uids whose profile read is in flight
  send,             \* per client: the sendFriendRequest call in flight
  reg,              \* per client: the onAuthSubmit registration in flight
  post,             \* per client: message writes issued and not yet committed
  clock,            \* the store's clock (serverTimestamp)
  draft,            \* per client: the text in the message field
  needsPush,        \* per client: the messages listener is owed a snapshot
  pendingThroughout, \* history, per client: the targets whose request from the caller
                    \* has been pending at every moment of the current (last) send call
  pushed,           \* per client: the snapshots the store has sent to the client's
                    \* messages listener and that have not arrived yet
  happened          \* history: "reselected" once a friends snapshot has replaced a
                    \* selected friend, "discarded" once a detach has dropped a snapshot,
                    \* "rejected again" once a rejectRequest was applied to a request
                    \* that was rejected already

vars == << db, auth, currentUser, fixedUsername, friends, incomingRequests, activeFriend,
           messages, friendError, authError, profileLoads, send, reg, post, clock, draft,
           needsPush, pendingThroughout, pushed, happened >>

\* ------------------------------------------------------------ store records
NoUsername == [uid |-> NoUid, email |-> 0, username |-> EmptyText]

NoUser == [exists |-> FALSE, username |-> EmptyText]

NoFriendDoc == [exists |-> FALSE, username |-> EmptyText]

NoRequest == [status |-> "none", fromUsername |-> EmptyText, toUsername |-> EmptyText,
              responded |-> FALSE]

NoChat == [exists |-> FALSE, members |-> << >>]

NoFriend == [uid |-> NoUid, username |-> EmptyText]

EmptyDb ==
  [ usernames |-> [h \in Handles |-> NoUsername],
    users |-> [u \in Uids |-> NoUser],
    friends |-> [p \in Uids \X Uids |-> NoFriendDoc],
    friendRequests |-> [p \in RequestIds |-> NoRequest],
    chats |-> [c \in ChatIds |-> NoChat],
    messages |-> [c \in ChatIds |-> {}] ]

\* The store after every account has registered, one handle each.
RegisteredDb ==
  [ EmptyDb EXCEPT
      !.usernames = [h \in Handles |->
                       IF \E u \in Uids : HandleOf(u) = h
                       THEN LET u == CHOOSE v \in Uids : HandleOf(v) = h
                            IN [uid |-> u, email |-> u, username |-> h]
                       ELSE NoUsername],
      !.users = [u \in Uids |-> [exists |-> TRUE, username |-> HandleOf(u)]] ]

\* existing is the status the call has read from its request record ("unread" before).
IdleSend == [pc |-> "idle", uid |-> NoUid, name |-> EmptyText, search |-> EmptyText,
             friends |-> {}, target |-> NoUid, existing |-> "unread"]

IdleReg == [pc |-> "idle", username |-> EmptyText, email |-> 0, uid |-> NoUid]

\* ---------------------------------------------------------------- snapshots
\* users/{owner}/friends as items {uid: item.id, ...item.data()}
FriendDocs(owner) ==
  { [uid |-> b, username |-> db.friends[<<owner, b>>].username] :
      b \in { x \in Uids : db.friends[<<owner, x>>].exists } }

\* orderBy("username", "asc"); the store breaks ties by document id.
FriendBefore(x, y) ==
  TextLess(x.username, y.username) \/ (x.username = y.username /\ x.uid <= y.uid)

RECURSIVE SortFriends(_)
SortFriends(S) ==
  IF S = {} THEN << >>
  ELSE LET first == CHOOSE x \in S : \A y \in S : FriendBefore(x, y)
       IN << first >> \o SortFriends(S \ {first})

FriendUids(list) == { list[i].uid : i \in 1..Len(list) }

\* An update that keeps a selection whether or not it is in the new list.
NextActiveFriendKeeping(prev, nextFriends) ==
  IF prev # NoFriend THEN prev
  ELSE IF nextFriends = << >> THEN NoFriend ELSE nextFriends[1]

\* The functional update of setActiveFriend in the friends listener.
NextActiveFriend(prev, nextFriends) ==
  LET first == IF nextFriends = << >> THEN NoFriend ELSE nextFriends[1]
  IN IF prev = NoFriend THEN first
     ELSE IF prev.uid \in FriendUids(nextFriends) THEN prev ELSE first

\* activeChatId
activeChatId(user, friend) ==
  IF user # NoUid /\ friend # NoFriend THEN getChatId(user, friend.uid) ELSE << >>

\* Whether the messages effect attaches a listener: it does not, and empties the
\* message list, if (!currentUser || !trimmedName || !activeChatId).
Subscribes(user, fixed, friend) ==
  user # NoUid /\ trimmedName(fixed) # EmptyText /\ activeChatId(user, friend) # << >>

\* The message list after the messages effect has run on the new dependencies.
MessagesEffect(user, fixed, friend, list) ==
  IF Subscribes(user, fixed, friend) THEN list ELSE << >>

\* ------------------------------------------------------------------ history
\* One sendFriendRequest call per client at a time; a call that is over leaves its
\* record (pc "returned" or "written") until the next one starts.
SendInFlight(c) == send[c].pc \in {"lookup", "existing", "write"}

PendingTargets(d, uid) ==
  { t \in Uids : uid # NoUid /\ d.friendRequests[RequestId(uid, t)].status = "pending" }

\* pendingThroughout follows every step: a call that starts takes the requests pending
\* at that moment, a call in flight loses those that are no longer pending.
SendHistory ==
  pendingThroughout' =
    [c \in Clients |->
       IF ~SendInFlight(c) /\ send'[c] # send[c]
       THEN PendingTargets(db, send'[c].uid) \cap PendingTargets(db', send'[c].uid)
       ELSE IF SendInFlight(c)
       THEN pendingThroughout[c] \cap PendingTargets(db', send[c].uid)
       ELSE pendingThroughout[c]]

\* ----------------------------------------------------------------- messages
MessageIds == 1..MaxMessages

\* createdAt of a write the store has not stamped yet (null: shown as "sending...")
NoTime == 0

\* orderBy("createdAt", "asc"); the store breaks ties by document id.
MessageBefore(x, y) ==
  x.createdAt < y.createdAt \/ (x.createdAt = y.createdAt /\ x.id <= y.id)

RECURSIVE SortMessages(_)
SortMessages(S) ==
  IF S = {} THEN << >>
  ELSE LET first == CHOOSE x \in S : \A y \in S : MessageBefore(x, y)
       IN << first >> \o SortMessages(S \ {first})

\* The client's own writes to the channel that the store has not committed yet, as its
\* listener sees them: after the committed messages, without a time.
RECURSIVE LocalWrites(_, _)
LocalWrites(posts, chatId) ==
  IF posts = << >> THEN << >>
  ELSE LET m == Head(posts)
           rest == LocalWrites(Tail(posts), chatId)
       IN IF m.chat = chatId
          THEN << [id |-> m.id, authorUid |-> m.authorUid, authorUsername |-> m.authorUsername,
                   text |-> m.text, createdAt |-> NoTime] >> \o rest
          ELSE rest

\* snapshot.docs of the messages query of a channel, for a client with these writes
\* in flight.
MessagesQuery(d, posts, chatId) ==
  SortMessages(d.messages[chatId]) \o LocalWrites(posts, chatId)

\* What the messages listener of a session would be delivered.
ListenerView(d, posts, user, fixed, friend) ==
  IF Subscribes(user, fixed, friend)
  THEN MessagesQuery(d, posts, activeChatId(user, friend))
  ELSE << >>

\* needsPush follows every step: a listener that is attached anew is owed its first
\* snapshot, an attached one is owed a snapshot when what it would see changes, and a
\* detached one is owed nothing.
PushHistory ==
  needsPush' =
    [c \in Clients |->
       IF ~Subscribes(currentUser'[c], fixedUsername'[c], activeFriend'[c]) THEN FALSE
       ELSE IF << currentUser'[c], trimmedName(fixedUsername'[c]), activeFriend'[c] >>
                 # << currentUser[c], trimmedName(fixedUsername[c]), activeFriend[c] >>
       THEN TRUE
       ELSE IF ListenerView(db', post'[c], currentUser'[c], fixedUsername'[c], activeFriend'[c])
                 # ListenerView(db, post[c], currentUser[c], fixedUsername[c], activeFriend[c])
       THEN TRUE
       ELSE needsPush[c]]

\* The dependencies of the messages effect: [activeChatId, activeFriend, currentUser,
\* trimmedName]; activeChatId is a function of the other three.
EffectDeps(user, fixed, friend) == << user, trimmedName(fixed), friend >>

\* An unsubscribe that lets the snapshots in flight arrive.
UnsubscribeKeeping(inFlight) == inFlight

\* unsubscribe(): the listener is detached, and what the store has sent it and has not
\* arrived yet is never handed to its callback.
Unsubscribe(inFlight) == << >>

\* return () => unsubscribe(): the cleanup of the messages effect runs whenever one of
\* its dependencies has changed (and the effect runs again on the new ones).
EffectCleanup ==
  pushed' =
    [c \in Clients |->
       IF EffectDeps(currentUser'[c], fixedUsername'[c], activeFriend'[c])
            # EffectDeps(currentUser[c], fixedUsername[c], activeFriend[c])
       THEN Unsubscribe(pushed[c])
       ELSE pushed[c]]

\* happened follows every step (rejectRequest adds its own event).
EventHistory ==
  happened' = happened
    \cup (IF \E c \in Clients :
               /\ currentUser[c] # NoUid /\ currentUser'[c] = currentUser[c]
               /\ activeFriend[c] # NoFriend /\ activeFriend'[c].uid # activeFriend[c].uid
           THEN {"reselected"} ELSE {})
    \cup (IF \E c \in Clients :
               /\ pushed[c] # << >>
               /\ EffectDeps(currentUser'[c], fixedUsername'[c], activeFriend'[c])
                    # EffectDeps(currentUser[c], fixedUsername[c], activeFriend[c])
           THEN {"discarded"} ELSE {})

\* What every step carries along: the history variables and the effect cleanup.
History == SendHistory /\ PushHistory /\ EffectCleanup /\ EventHistory

\* The friends listener: a snapshot of users/{uid}/friends is delivered.
FriendsSnapshot(c) ==
  /\ currentUser[c] # NoUid
  /\ LET nextFriends == SortFriends(FriendDocs(currentUser[c]))
         nextActive == NextActiveFriend(activeFriend[c], nextFriends)
     IN /\ friends' = [friends EXCEPT ![c] = nextFriends]
        /\ activeFriend' = [activeFriend EXCEPT ![c] = nextActive]
        /\ messages' = [messages EXCEPT ![c] =
                          MessagesEffect(currentUser[c], fixedUsername[c], nextActive, @)]
  /\ UNCHANGED << db, auth, currentUser, fixedUsername, incomingRequests,
                  friendError, authError, profileLoads, send, reg, post, clock, draft >>
  /\ History

RequestItem(p) ==
  [fromUid |-> p[1], toUid |-> p[2],
   fromUsername |-> db.friendRequests[p].fromUsername,
   toUsername |-> db.friendRequests[p].toUsername]

\* where("toUid", "==", uid), then the filter on status === "pending"
PendingFor(uid) ==
  { RequestItem(p) : p \in { q \in RequestIds :
                               q[2] = uid /\ db.friendRequests[q].status = "pending" } }

\* The requests listener: a snapshot of the account's incoming requests is delivered.
RequestsSnapshot(c) ==
  /\ currentUser[c] # NoUid
  /\ incomingRequests' = [incomingRequests EXCEPT ![c] = PendingFor(currentUser[c])]
  /\ UNCHANGED << db, auth, currentUser, fixedUsername, friends, activeFriend, messages,
                  friendError, authError, profileLoads, send, reg, post, clock, draft >>
  /\ History

\* --------------------------------------------------------- sendFriendRequest
SelfRequest == "You cannot add yourself."

HandleNotFound == "Username not found."

AlreadyFriends == "User is already your friend."

AlreadyPending == "Friend request already sent."

NoError == ""

\* The call up to its first await: the guards and the self check.  The closure keeps
\* currentUser, trimmedName, normalizedSearchName and friends as they were rendered.
SendStart(c, searchName) ==
  /\ currentUser[c] # NoUid
  /\ ~SendInFlight(c)
  /\ LET name == trimmedName(fixedUsername[c])
         search == normalizedSearchName(searchName)
     IN IF name = EmptyText \/ search = EmptyText
        THEN /\ friendError' = [friendError EXCEPT ![c] = NoError]
             /\ send' = [send EXCEPT ![c] = [IdleSend EXCEPT !.pc = "returned", !.search = search,
                                                              !.uid = currentUser[c]]]
        ELSE IF search = name
        THEN /\ friendError' = [friendError EXCEPT ![c] = SelfRequest]
             /\ send' = [send EXCEPT ![c] = [IdleSend EXCEPT !.pc = "returned", !.search = search,
                                                              !.uid = currentUser[c]]]
        ELSE /\ friendError' = [friendError EXCEPT ![c] = NoError]
             /\ send' = [send EXCEPT ![c] =
                           [pc |-> "lookup", uid |-> currentUser[c], name |-> name,
                            search |-> search, friends |-> FriendUids(friends[c]),
                            target |-> NoUid, existing |-> "unread"]]
  /\ UNCHANGED << db, auth, currentUser, fixedUsername, friends, incomingRequests,
                  activeFriend, messages, authError, profileLoads, reg, post, clock, draft >>
  /\ History

\* The friends check of the call, on the friend list its closure holds.
IsFriend(call, targetUid) == targetUid \in call.friends

\* The read of usernames/{name} returns; then the friends check.
SendLookup(c) ==
  /\ send[c].pc = "lookup"
  /\ LET targetDoc == db.usernames[send[c].search]
     IN IF targetDoc.uid = NoUid
        THEN /\ friendError' = [friendError EXCEPT ![c] = HandleNotFound]
             /\ send' = [send EXCEPT ![c].pc = "returned"]
        ELSE IF IsFriend(send[c], targetDoc.uid)
        THEN /\ friendError' = [friendError EXCEPT ![c] = AlreadyFriends]
             /\ send' = [send EXCEPT ![c].pc = "returned", ![c].target = targetDoc.uid]
        ELSE /\ friendError' = friendError
             /\ send' = [send EXCEPT ![c].pc = "existing", ![c].target = targetDoc.uid]
  /\ UNCHANGED << db, auth, currentUser, fixedUsername, friends, incomingRequests,
                  activeFriend, messages, authError, profileLoads, reg, post, clock, draft >>
  /\ History

\* The existing-request check with the status test left out of the send.
BlocksSendNever(existingRequest) == FALSE

\* An existing-request check that refuses whenever the record exists.
BlocksSendIfExists(existingRequest) == existingRequest.status # "none"

\* existingRequest.exists() && existingRequest.data().status === "pending"
BlocksSend(existingRequest) == existingRequest.status = "pending"

\* The read of friendRequests/{requestId} returns.
SendExisting(c) ==
  /\ send[c].pc = "existing"
  /\ LET existingRequest == db.friendRequests[RequestId(send[c].uid, send[c].target)]
     IN IF BlocksSend(existingRequest)
        THEN /\ friendError' = [friendError EXCEPT ![c] = AlreadyPending]
             /\ send' = [send EXCEPT ![c].pc = "returned",
                                     ![c].existing = existingRequest.status]
        ELSE /\ friendError' = friendError
             /\ send' = [send EXCEPT ![c].pc = "write",
                                     ![c].existing = existingRequest.status]
  /\ UNCHANGED << db, auth, currentUser, fixedUsername, friends, incomingRequests,
                  activeFriend, messages, authError, profileLoads, reg, post, clock, draft >>
  /\ History

\* setDoc(friendRequests/{requestId}, {..., status: "pending"}) is applied by the store.
SendWrite(c) ==
  /\ send[c].pc = "write"
  /\ db' = [db EXCEPT !.friendRequests[RequestId(send[c].uid, send[c].target)] =
              [status |-> "pending", fromUsername |-> send[c].name,
               toUsername |-> send[c].search, responded |-> FALSE]]
  /\ send' = [send EXCEPT ![c].pc = "written"]
  /\ UNCHANGED << auth, currentUser, fixedUsername, friends, incomingRequests, activeFriend,
                  messages, friendError, authError, profileLoads, reg, post, clock, draft >>
  /\ History

\* ------------------------------------------------- acceptRequest, rejectRequest
\* A write of a batch: op is "update" (the document must exist), "set" or "merge".
RequestUpdate(item, status) ==
  [coll |-> "friendRequests", op |-> "update", key |-> RequestId(item.fromUid, item.toUid),
   status |-> status]

FriendSet(owner, other, username) ==
  [coll |-> "friends", op |-> "set", key |-> <<owner, other>>, username |-> username]

ChatMerge(chatId, members) ==
  [coll |-> "chats", op |-> "merge", key |-> chatId, members |-> members]

\* acceptRequest without the recipient's mirror entry.
AcceptWritesOneSided(requestItem) ==
  << RequestUpdate(requestItem, "accepted"),
     FriendSet(requestItem.fromUid, requestItem.toUid, requestItem.toUsername),
     ChatMerge(getChatId(requestItem.fromUid, requestItem.toUid),
               << requestItem.fromUid, requestItem.toUid >>) >>

\* The four writes acceptRequest puts in its batch, in the order it adds them.
AcceptWrites(requestItem) ==
  << RequestUpdate(requestItem, "accepted"),
     FriendSet(requestItem.fromUid, requestItem.toUid, requestItem.toUsername),
     FriendSet(requestItem.toUid, requestItem.fromUid, requestItem.fromUsername),
     ChatMerge(getChatId(requestItem.fromUid, requestItem.toUid),
               << requestItem.fromUid, requestItem.toUid >>) >>

\* An update of a document that does not exist fails.
WriteApplies(d, w) ==
  w.op = "update" => d.friendRequests[w.key].status # "none"

ApplyWrite(d, w) ==
  CASE w.coll = "friendRequests" ->
         [d EXCEPT !.friendRequests[w.key] = [@ EXCEPT !.status = w.status, !.responded = TRUE]]
    [] w.coll = "friends" ->
         [d EXCEPT !.friends[w.key] = [exists |-> TRUE, username |-> w.username]]
    [] w.coll = "chats" ->
         [d EXCEPT !.chats[w.key] = [exists |-> TRUE, members |-> w.members]]

RECURSIVE ApplyWrites(_, _)
ApplyWrites(d, ws) ==
  IF ws = << >> THEN d ELSE ApplyWrites(ApplyWrite(d, Head(ws)), Tail(ws))

\* Whether every write of ws applies, each on the store the ones before it left.
RECURSIVE AllApply(_, _)
AllApply(d, ws) ==
  IF ws = << >> THEN TRUE
  ELSE WriteApplies(d, Head(ws)) /\ AllApply(ApplyWrite(d, Head(ws)), Tail(ws))

\* The writes issued one after the other as separate calls, stopping at the first
\* that fails: what a commit that is not atomic would leave.
RECURSIVE ApplyUntilFailure(_, _, _)
ApplyUntilFailure(d, ws, failAt) ==
  IF ws = << >> \/ failAt = 1 \/ ~WriteApplies(d, Head(ws)) THEN d
  ELSE ApplyUntilFailure(ApplyWrite(d, Head(ws)), Tail(ws), failAt - 1)

\* A commit that issues the writes as separate calls.
SequentialCommit(d, ws, failAt) == ApplyUntilFailure(d, ws, failAt)

\* batch.commit(): every write of the batch is applied, or none is.  failAt is the
\* write at which the store or the transport fails (0: none does).
BatchCommit(d, ws, failAt) ==
  IF failAt = 0 /\ AllApply(d, ws) THEN ApplyWrites(d, ws) ELSE d

\* Accept on an item of the rendered request list; the batch is committed.
AcceptRequest(c, requestItem, failAt) ==
  /\ currentUser[c] # NoUid
  /\ requestItem \in incomingRequests[c]
  /\ db' = BatchCommit(db, AcceptWrites(requestItem), failAt)
  /\ UNCHANGED << auth, currentUser, fixedUsername, friends, incomingRequests, activeFriend,
                  messages, friendError, authError, profileLoads, send, reg, post, clock, draft >>
  /\ History

\* A reject that puts a request that is rejected already back to pending.
RejectWritesReopening(requestItem) ==
  << RequestUpdate(requestItem,
                   IF db.friendRequests[RequestId(requestItem.fromUid, requestItem.toUid)].status
                        = "rejected"
                   THEN "pending" ELSE "rejected") >>

\* updateDoc(friendRequests/{id}, {status: "rejected", respondedAt})
RejectWrites(requestItem) == << RequestUpdate(requestItem, "rejected") >>

\* Reject on an item of the rendered request list.
RejectRequest(c, requestItem) ==
  /\ requestItem \in incomingRequests[c]
  /\ db' = BatchCommit(db, RejectWrites(requestItem), 0)
  /\ happened' =
       IF db.friendRequests[RequestId(requestItem.fromUid, requestItem.toUid)].status
            = "rejected"
       THEN happened \cup {"rejected again"}
       ELSE happened
  /\ UNCHANGED << auth, currentUser, fixedUsername, friends, incomingRequests, activeFriend,
                  messages, friendError, authError, profileLoads, send, reg, post, clock, draft >>
  /\ SendHistory /\ PushHistory /\ EffectCleanup

\* ------------------------------------------------------------- sendMessage
\* A listener that adds the documents it has not shown yet to the list it holds.
AppendNewMessages(prev, snapshotDocs) ==
  prev \o SelectSeq(snapshotDocs,
                    LAMBDA m : \A i \in 1..Len(prev) : prev[i].id # m.id)

\* The listener's setMessages(nextMessages) when a snapshot arrives: a full replace.
NextMessages(prev, snapshotDocs) == snapshotDocs

\* The messages listener: a snapshot of the active channel is delivered.
MessagesSnapshot(c) ==
  /\ Subscribes(currentUser[c], fixedUsername[c], activeFriend[c])
  /\ needsPush[c]
  /\ messages' = [messages EXCEPT ![c] =
                    NextMessages(@, ListenerView(db, post[c], currentUser[c],
                                                 fixedUsername[c], activeFriend[c]))]
  /\ needsPush' = [needsPush EXCEPT ![c] = FALSE]
  /\ UNCHANGED << db, auth, currentUser, fixedUsername, friends, incomingRequests,
                  activeFriend, friendError, authError, profileLoads, send, reg, post,
                  clock, draft, pushed, happened >>
  /\ SendHistory

\* The store sends the messages listener a snapshot of its query.
PushSnapshot(c) ==
  /\ Subscribes(currentUser[c], fixedUsername[c], activeFriend[c])
  /\ needsPush[c]
  /\ Len(pushed[c]) < MaxInFlight
  /\ pushed' = [pushed EXCEPT ![c] =
                  Append(@, [chat |-> activeChatId(currentUser[c], activeFriend[c]),
                             docs |-> ListenerView(db, post[c], currentUser[c],
                                                   fixedUsername[c], activeFriend[c])])]
  /\ needsPush' = [needsPush EXCEPT ![c] = FALSE]
  /\ UNCHANGED << db, auth, currentUser, fixedUsername, friends, incomingRequests,
                  activeFriend, messages, friendError, authError, profileLoads, send, reg,
                  post, clock, draft, happened >>
  /\ SendHistory

\* A snapshot in flight arrives: the listener's callback runs on it.
DeliverPush(c) ==
  /\ pushed[c] # << >>
  /\ messages' = [messages EXCEPT ![c] = NextMessages(@, Head(pushed[c]).docs)]
  /\ pushed' = [pushed EXCEPT ![c] = Tail(@)]
  /\ UNCHANGED << db, auth, currentUser, fixedUsername, friends, incomingRequests,
                  activeFriend, friendError, authError, profileLoads, send, reg, post,
                  clock, draft, happened >>
  /\ SendHistory /\ PushHistory

\* The user types into the message field, which is enabled while a friend is selected.
TypeDraft(c, text) ==
  /\ currentUser[c] # NoUid
  /\ activeFriend[c] # NoFriend
  /\ draft' = [draft EXCEPT ![c] = text]
  /\ UNCHANGED << db, auth, currentUser, fixedUsername, friends, incomingRequests,
                  activeFriend, messages, friendError, authError, profileLoads, send, reg,
                  post, clock >>
  /\ History

UsedMessageIds ==
  UNION { { m.id : m \in db.messages[k] } : k \in ChatIds }
    \cup UNION { { post[c][i].id : i \in 1..Len(post[c]) } : c \in Clients }

\* The guard of sendMessage without its test of the draft.
SendMessageReturnsDraftUnchecked(user, fixed, friend, text) ==
  user = NoUid \/ trimmedName(fixed) = EmptyText \/ activeChatId(user, friend) = << >>

\* if (!currentUser || !trimmedName || !activeChatId || !trimmedDraft) return;
SendMessageReturns(user, fixed, friend, text) ==
  user = NoUid \/ trimmedName(fixed) = EmptyText \/ activeChatId(user, friend) = << >>
    \/ trimmedDraft(text) = EmptyText

\* sendMessage up to its await: the guard, setDraft(""), and addDoc issues the write
\* under a document id of the client's making.
SendMessage(c) ==
  /\ IF SendMessageReturns(currentUser[c], fixedUsername[c], activeFriend[c], draft[c])
     THEN UNCHANGED << draft, post >>
     ELSE /\ draft' = [draft EXCEPT ![c] = EmptyText]
          /\ \E id \in MessageIds \ UsedMessageIds :
               post' = [post EXCEPT ![c] =
                          Append(@, [chat |-> activeChatId(currentUser[c], activeFriend[c]),
                                     id |-> id, authorUid |-> currentUser[c],
                                     authorUsername |-> trimmedName(fixedUsername[c]),
                                     text |-> trimmedDraft(draft[c])])]
  /\ UNCHANGED << db, auth, currentUser, fixedUsername, friends, incomingRequests,
                  activeFriend, messages, friendError, authError, profileLoads, send, reg,
                  clock >>
  /\ History

\* The store commits the oldest write in flight of a client and stamps it with its
\* clock, which has advanced since the last commit (tick 1) or has not (tick 0).
CommitMessage(c, tick) ==
  /\ post[c] # << >>
  /\ LET m == Head(post[c])
     IN db' = [db EXCEPT !.messages[m.chat] =
                 @ \cup { [id |-> m.id, authorUid |-> m.authorUid,
                           authorUsername |-> m.authorUsername, text |-> m.text,
                           createdAt |-> clock + tick] }]
  /\ clock' = clock + tick
  /\ post' = [post EXCEPT ![c] = Tail(@)]
  /\ UNCHANGED << auth, currentUser, fixedUsername, friends, incomingRequests, activeFriend,
                  messages, friendError, authError, profileLoads, send, reg, draft >>
  /\ History

\* ------------------------------------------------------------------ session
AccountOf(email) == auth[email]

\* onAuthSubmit in login mode: the directory read, signInWithEmailAndPassword with
\* the right password, and the auth listener's setCurrentUser with the effects that
\* follow it (the profile read is issued, the listeners are attached).
SignIn(c, username) ==
  /\ currentUser[c] = NoUid
  /\ normalizedUsername(username) # EmptyText
  /\ LET usernameDoc == db.usernames[normalizedUsername(username)]
     IN IF usernameDoc.uid = NoUid
        THEN /\ authError' = [authError EXCEPT ![c] = HandleNotFound]
             /\ UNCHANGED << currentUser, profileLoads >>
        ELSE /\ AccountOf(usernameDoc.email) # NoUid
             /\ authError' = [authError EXCEPT ![c] = NoError]
             /\ currentUser' = [currentUser EXCEPT ![c] = AccountOf(usernameDoc.email)]
             /\ profileLoads' = [profileLoads EXCEPT ![c] = @ \cup {AccountOf(usernameDoc.email)}]
  /\ UNCHANGED << db, auth, fixedUsername, friends, incomingRequests, activeFriend, messages,
                  friendError, send, reg, post, clock, draft >>
  /\ History

\* getDoc(users/{uid}).then(...): a profile read returns, whoever is signed in by now.
ProfileLoaded(c, u) ==
  /\ u \in profileLoads[c]
  /\ profileLoads' = [profileLoads EXCEPT ![c] = @ \ {u}]
  /\ LET nextUsername == IF db.users[u].exists THEN db.users[u].username
                         ELSE fixedUsername[c]
     IN /\ fixedUsername' = [fixedUsername EXCEPT ![c] = nextUsername]
        /\ messages' = [messages EXCEPT ![c] =
                          MessagesEffect(currentUser[c], nextUsername, activeFriend[c], @)]
  /\ UNCHANGED << db, auth, currentUser, friends, incomingRequests, activeFriend,
                  friendError, authError, send, reg, post, clock, draft >>
  /\ History

\* handleSignOut: signOut(auth), the auth listener's setCurrentUser(null), then the
\* resets of the handler.
HandleSignOut(c) ==
  /\ currentUser[c] # NoUid
  /\ currentUser' = [currentUser EXCEPT ![c] = NoUid]
  /\ messages' = [messages EXCEPT ![c] = << >>]
  /\ friends' = [friends EXCEPT ![c] = << >>]
  /\ incomingRequests' = [incomingRequests EXCEPT ![c] = {}]
  /\ activeFriend' = [activeFriend EXCEPT ![c] = NoFriend]
  /\ fixedUsername' = [fixedUsername EXCEPT ![c] = EmptyText]
  /\ UNCHANGED << db, auth, friendError, authError, profileLoads, send, reg, post, clock, draft >>
  /\ History

\* The authentication collaborator reports signed-out on its own (the session ended
\* elsewhere): setCurrentUser(null) and the effects that depend on currentUser.
AuthSignedOut(c) ==
  /\ currentUser[c] # NoUid
  /\ currentUser' = [currentUser EXCEPT ![c] = NoUid]
  /\ messages' = [messages EXCEPT ![c] = << >>]
  /\ friends' = [friends EXCEPT ![c] = << >>]
  /\ incomingRequests' = [incomingRequests EXCEPT ![c] = {}]
  /\ UNCHANGED << db, auth, fixedUsername, activeFriend, friendError, authError,
                  profileLoads, send, reg, post, clock, draft >>
  /\ History

\* ------------------------------------------------- onAuthSubmit, register mode
HandleTaken == "Username is already taken."

FillAllFields == "Fill all required fields."

\* err.message of a rejected promise in the try block
AuthFailed == "Authentication failed."

NoEmail == 0

RegInFlight(c) == reg[c].pc \in {"check", "create", "username", "profile"}

\* The uid the authentication collaborator gives the next account it creates.
FreshUids == { u \in Uids : \A e \in Emails : auth[e] # u }

\* The form is submitted in register mode: the required-fields check, then the read
\* of usernames/{normalizedUsername} is issued.
RegisterSubmit(c, username, email) ==
  /\ currentUser[c] = NoUid
  /\ ~RegInFlight(c)
  /\ IF normalizedUsername(username) = EmptyText \/ email = NoEmail
     THEN /\ authError' = [authError EXCEPT ![c] = FillAllFields]
          /\ reg' = [reg EXCEPT ![c] = [IdleReg EXCEPT !.pc = "invalid"]]
     ELSE /\ authError' = [authError EXCEPT ![c] = NoError]
          /\ reg' = [reg EXCEPT ![c] = [pc |-> "check", username |-> normalizedUsername(username),
                                        email |-> email, uid |-> NoUid]]
  /\ UNCHANGED << db, auth, currentUser, fixedUsername, friends, incomingRequests,
                  activeFriend, messages, friendError, profileLoads, send, post, clock, draft >>
  /\ History

\* The uniqueness test of the registration, on the directory entry it has read.
HandleIsTaken(existing) == existing.uid # NoUid

\* The read of usernames/{handle} returns.
RegisterCheck(c) ==
  /\ reg[c].pc = "check"
  /\ IF HandleIsTaken(db.usernames[reg[c].username])
     THEN /\ authError' = [authError EXCEPT ![c] = HandleTaken]
          /\ reg' = [reg EXCEPT ![c].pc = "taken"]
     ELSE /\ authError' = authError
          /\ reg' = [reg EXCEPT ![c].pc = "create"]
  /\ UNCHANGED << db, auth, currentUser, fixedUsername, friends, incomingRequests,
                  activeFriend, messages, friendError, profileLoads, send, post, clock, draft >>
  /\ History

\* createUserWithEmailAndPassword returns: the account exists and is signed in; the
\* auth listener sets currentUser and the profile effect issues its read.  An email
\* that has an account already makes the call throw.
RegisterCreate(c) ==
  /\ reg[c].pc = "create"
  /\ IF auth[reg[c].email] # NoUid
     THEN /\ authError' = [authError EXCEPT ![c] = AuthFailed]
          /\ reg' = [reg EXCEPT ![c].pc = "failed"]
          /\ UNCHANGED << auth, currentUser, profileLoads, messages >>
     ELSE /\ FreshUids # {}
          /\ LET uid == CHOOSE u \in FreshUids : \A v \in FreshUids : u <= v
             IN /\ auth' = [auth EXCEPT ![reg[c].email] = uid]
                /\ reg' = [reg EXCEPT ![c].pc = "username", ![c].uid = uid]
                /\ currentUser' = [currentUser EXCEPT ![c] = uid]
                /\ profileLoads' = [profileLoads EXCEPT ![c] = @ \cup {uid}]
                /\ messages' = [messages EXCEPT ![c] =
                                  MessagesEffect(uid, fixedUsername[c], activeFriend[c], @)]
          /\ authError' = authError
  /\ UNCHANGED << db, fixedUsername, friends, incomingRequests, activeFriend, friendError,
                  send, post, clock, draft >>
  /\ History

\* setDoc(usernames/{handle}, {uid, email, username}) is applied, or fails.
RegisterWriteUsername(c, ok) ==
  /\ reg[c].pc = "username"
  /\ IF ok
     THEN /\ db' = [db EXCEPT !.usernames[reg[c].username] =
                      [uid |-> reg[c].uid, email |-> reg[c].email, username |-> reg[c].username]]
          /\ reg' = [reg EXCEPT ![c].pc = "profile"]
          /\ authError' = authError
     ELSE /\ db' = db
          /\ reg' = [reg EXCEPT ![c].pc = "failed"]
          /\ authError' = [authError EXCEPT ![c] = AuthFailed]
  /\ UNCHANGED << auth, currentUser, fixedUsername, friends, incomingRequests, activeFriend,
                  messages, friendError, profileLoads, send, post, clock, draft >>
  /\ History

\* setDoc(users/{uid}, {username, email, createdAt}) is applied, or fails.
RegisterWriteProfile(c, ok) ==
  /\ reg[c].pc = "profile"
  /\ IF ok
     THEN /\ db' = [db EXCEPT !.users[reg[c].uid] =
                      [exists |-> TRUE, username |-> reg[c].username]]
          /\ reg' = [reg EXCEPT ![c].pc = "done"]
          /\ authError' = authError
     ELSE /\ db' = db
          /\ reg' = [reg EXCEPT ![c].pc = "failed"]
          /\ authError' = [authError EXCEPT ![c] = AuthFailed]
  /\ UNCHANGED << auth, currentUser, fixedUsername, friends, incomingRequests, activeFriend,
                  messages, friendError, profileLoads, send, post, clock, draft >>
  /\ History

\* ----------------------------------------------------------- initial states
NoSession ==
  /\ currentUser = [c \in Clients |-> NoUid]
  /\ fixedUsername = [c \in Clients |-> EmptyText]
  /\ friends = [c \in Clients |-> << >>]
  /\ incomingRequests = [c \in Clients |-> {}]
  /\ activeFriend = [c \in Clients |-> NoFriend]
  /\ messages = [c \in Clients |-> << >>]
  /\ friendError = [c \in Clients |-> NoError]
  /\ authError = [c \in Clients |-> NoError]
  /\ profileLoads = [c \in Clients |-> {}]
  /\ send = [c \in Clients |-> IdleSend]
  /\ reg = [c \in Clients |-> IdleReg]
  /\ post = [c \in Clients |-> << >>]
  /\ clock = 1
  /\ draft = [c \in Clients |-> EmptyText]
  /\ needsPush = [c \in Clients |-> FALSE]
  /\ pendingThroughout = [c \in Clients |-> {}]
  /\ pushed = [c \in Clients |-> << >>]
  /\ happened = {}

\* Every account is registered and nobody is signed in.
InitRegistered ==
  /\ db = RegisteredDb
  /\ auth = [e \in Emails |-> e]
  /\ NoSession

\* The account client c is signed in as in the populated sessions.
AccountAt(c) == ((c - 1) % NumAccounts) + 1

\* Every account is registered; every client has signed in and loaded its profile.
InitSignedIn ==
  /\ db = RegisteredDb
  /\ auth = [e \in Emails |-> e]
  /\ currentUser = [c \in Clients |-> AccountAt(c)]
  /\ fixedUsername = [c \in Clients |-> HandleOf(AccountAt(c))]
  /\ friends = [c \in Clients |-> << >>]
  /\ incomingRequests = [c \in Clients |-> {}]
  /\ activeFriend = [c \in Clients |-> NoFriend]
  /\ messages = [c \in Clients |-> << >>]
  /\ friendError = [c \in Clients |-> NoError]
  /\ authError = [c \in Clients |-> NoError]
  /\ profileLoads = [c \in Clients |-> {}]
  /\ send = [c \in Clients |-> IdleSend]
  /\ reg = [c \in Clients |-> IdleReg]
  /\ post = [c \in Clients |-> << >>]
  /\ clock = 1
  /\ draft = [c \in Clients |-> EmptyText]
  /\ needsPush = [c \in Clients |-> FALSE]
  /\ pendingThroughout = [c \in Clients |-> {}]
  /\ pushed = [c \in Clients |-> << >>]
  /\ happened = {}

\* Nothing is registered and nobody is signed in.
InitEmpty ==
  /\ db = EmptyDb
  /\ auth = [e \in Emails |-> NoUid]
  /\ NoSession

\* ----------------------------------------------- the friend-request protocol
\* Signed-in clients send, accept and reject requests in any interleaving, each on
\* the snapshots it was last delivered.
NextFriends ==
  \/ \E c \in Clients : FriendsSnapshot(c)
  \/ \E c \in Clients : RequestsSnapshot(c)
  \/ \E c \in Clients, searchName \in RawNames : SendStart(c, searchName)
  \/ \E c \in Clients : SendLookup(c)
  \/ \E c \in Clients : SendExisting(c)
  \/ \E c \in Clients : SendWrite(c)
  \/ \E c \in Clients : \E requestItem \in incomingRequests[c], failAt \in 0..4 :
       AcceptRequest(c, requestItem, failAt)
  \/ \E c \in Clients : \E requestItem \in incomingRequests[c] :
       RejectRequest(c, requestItem)

SpecFriends == InitSignedIn /\ [][NextFriends]_vars

\* ------------------------------------------------------- one client's sessions
\* One browser signs in and out as any account, while its profile reads and its
\* sendFriendRequest calls are in flight.
NextSession ==
  \/ \E c \in SessionClients, username \in RawNames : SignIn(c, username)
  \/ \E c \in SessionClients, u \in Uids : ProfileLoaded(c, u)
  \/ \E c \in SessionClients : HandleSignOut(c)
  \/ \E c \in SessionClients : AuthSignedOut(c)
  \/ \E c \in SessionClients : RequestsSnapshot(c)
  \/ \E c \in SessionClients, searchName \in RawNames : SendStart(c, searchName)
  \/ \E c \in SessionClients : SendLookup(c)
  \/ \E c \in SessionClients : SendExisting(c)
  \/ \E c \in SessionClients : SendWrite(c)

SpecSession == InitRegistered /\ [][NextSession]_vars

\* ---------------------------------------------------------------- messaging
\* The store after accounts 1 and 2 have registered, 1 has sent 2 a request and 2 has
\* accepted it.
ChattingDb ==
  LET requestItem == [fromUid |-> 1, toUid |-> 2, fromUsername |-> HandleOf(1),
                      toUsername |-> HandleOf(2)]
      sent == [RegisteredDb EXCEPT !.friendRequests[RequestId(1, 2)] =
                 [status |-> "pending", fromUsername |-> HandleOf(1),
                  toUsername |-> HandleOf(2), responded |-> FALSE]]
  IN BatchCommit(sent, AcceptWrites(requestItem), 0)

\* Every client is signed in, has loaded its profile and its friend list, and has its
\* first friend selected; the messages listener is attached and owed its first snapshot.
InitChatting ==
  /\ db = ChattingDb
  /\ auth = [e \in Emails |-> e]
  /\ currentUser = [c \in Clients |-> AccountAt(c)]
  /\ fixedUsername = [c \in Clients |-> HandleOf(AccountAt(c))]
  /\ friends = [c \in Clients |-> SortFriends(FriendDocs(AccountAt(c)))]
  /\ incomingRequests = [c \in Clients |-> {}]
  /\ activeFriend = [c \in Clients |-> NextActiveFriend(NoFriend, friends[c])]
  /\ messages = [c \in Clients |-> << >>]
  /\ friendError = [c \in Clients |-> NoError]
  /\ authError = [c \in Clients |-> NoError]
  /\ profileLoads = [c \in Clients |-> {}]
  /\ send = [c \in Clients |-> IdleSend]
  /\ reg = [c \in Clients |-> IdleReg]
  /\ post = [c \in Clients |-> << >>]
  /\ clock = 1
  /\ draft = [c \in Clients |-> EmptyText]
  /\ needsPush = [c \in Clients |->
                    Subscribes(currentUser[c], fixedUsername[c], activeFriend[c])]
  /\ pendingThroughout = [c \in Clients |-> {}]
  /\ pushed = [c \in Clients |-> << >>]
  /\ happened = {}

\* Friends type, send and receive messages, and sign out.
NextChat ==
  \/ \E c \in Clients, text \in RawDrafts : TypeDraft(c, text)
  \/ \E c \in Clients : SendMessage(c)
  \/ \E c \in Clients, tick \in {0, 1} : CommitMessage(c, tick)
  \/ \E c \in Clients : MessagesSnapshot(c)
  \/ \E c \in Clients : HandleSignOut(c)

SpecMessages == InitChatting /\ [][NextChat]_vars

\* ------------------------------------------------- one browser, two friends
\* The store after account 1 has posted a message to the channel of accounts 1 and 2.
PostedDb ==
  [ChattingDb EXCEPT !.messages[getChatId(1, 2)] =
     { [id |-> 1, authorUid |-> 1, authorUsername |-> HandleOf(1), text |-> << "h" >>,
        createdAt |-> 1] }]

\* Accounts 1 and 2 are registered and friends of each other, a message is in their
\* channel; nobody is signed in.
InitFriendsSignedOut ==
  /\ db = PostedDb
  /\ auth = [e \in Emails |-> e]
  /\ NoSession

\* One browser signs in and out as either account, by Logout or by a signed-out event
\* of the authentication collaborator, while its friend list and its messages are
\* delivered and it types and sends.
NextSwitch ==
  \/ \E c \in SessionClients, username \in RawNames : SignIn(c, username)
  \/ \E c \in SessionClients, u \in Uids : ProfileLoaded(c, u)
  \/ \E c \in SessionClients : HandleSignOut(c)
  \/ \E c \in SessionClients : AuthSignedOut(c)
  \/ \E c \in SessionClients : FriendsSnapshot(c)
  \/ \E c \in SessionClients : TypeDraft(c, << "h" >>)
  \/ \E c \in SessionClients : SendMessage(c)
  \/ \E c \in SessionClients : CommitMessage(c, 1)
  \/ \E c \in SessionClients : PushSnapshot(c)
  \/ \E c \in SessionClients : DeliverPush(c)

SpecSwitch == InitFriendsSignedOut /\ [][NextSwitch]_vars

\* ------------------------------------------------------------- registration
\* Browsers register accounts and sign out, in any interleaving of the steps of their
\* registrations; a registration that is left at a step has stopped there.
NextRegister ==
  \/ \E c \in Clients, username \in RawNames, email \in Emails \cup {NoEmail} :
       RegisterSubmit(c, username, email)
  \/ \E c \in Clients : RegisterCheck(c)
  \/ \E c \in Clients : RegisterCreate(c)
  \/ \E c \in Clients, ok \in BOOLEAN : RegisterWriteUsername(c, ok)
  \/ \E c \in Clients, ok \in BOOLEAN : RegisterWriteProfile(c, ok)
  \/ \E c \in Clients : HandleSignOut(c)

SpecRegister == InitEmpty /\ [][NextRegister]_vars

\* --------------------------------------------------------------- onboarding
\* One browser registers accounts, signs in and out, while its profile reads are in
\* flight.
NextOnboard ==
  \/ \E c \in SessionClients, username \in RawNames, email \in Emails \cup {NoEmail} :
       RegisterSubmit(c, username, email)
  \/ \E c \in SessionClients : RegisterCheck(c)
  \/ \E c \in SessionClients : RegisterCreate(c)
  \/ \E c \in SessionClients, ok \in BOOLEAN : RegisterWriteUsername(c, ok)
  \/ \E c \in SessionClients, ok \in BOOLEAN : RegisterWriteProfile(c, ok)
  \/ \E c \in SessionClients, username \in RawNames : SignIn(c, username)
  \/ \E c \in SessionClients, u \in Uids : ProfileLoaded(c, u)
  \/ \E c \in SessionClients : HandleSignOut(c)

\* The store and the authentication collaborator answer every call: a read that is in
\* flight returns, a write that is in flight is applied or fails.  What the user does
\* next (submit, sign out) is under no such condition.
CallsReturn ==
  \A c \in SessionClients :
    /\ WF_vars(RegisterCheck(c))
    /\ WF_vars(RegisterCreate(c))
    /\ WF_vars(\E ok \in BOOLEAN : RegisterWriteUsername(c, ok))
    /\ WF_vars(\E ok \in BOOLEAN : RegisterWriteProfile(c, ok))
    /\ \A u \in Uids : WF_vars(ProfileLoaded(c, u))

SpecOnboard == InitEmpty /\ [][NextOnboard]_vars /\ CallsReturn

\* ===================================================================== claims
Befriended(a, b) == db.friends[<<a, b>>].exists

MembersOf(chat) == { chat.members[i] : i \in 1..Len(chat.members) }

NoDuplicateFriend(list) ==
  \A i, j \in 1..Len(list) : list[i].uid = list[j].uid => i = j

\* C1: in every reachable store state the friend graph is symmetric (users/A/friends/B
\* exists iff users/B/friends/A exists), a friend appears at most once in a friend
\* list, and for every befriended pair exactly one channel document holds the pair as
\* its members: the one at chats/getChatId(A,B).
FriendGraphSymmetric ==
  /\ \A a, b \in Uids :
       /\ Befriended(a, b) <=> Befriended(b, a)
       /\ Befriended(a, b) =>
            /\ db.chats[getChatId(a, b)].exists
            /\ \A k \in ChatIds :
                 (db.chats[k].exists /\ MembersOf(db.chats[k]) = {a, b}) <=> k = getChatId(a, b)
  /\ \A c \in Clients : NoDuplicateFriend(friends[c])
  /\ \A u \in Uids : NoDuplicateFriend(SortFriends(FriendDocs(u)))

\* C1 witness: two different accounts are friends of each other, after an accept.
FriendGraphSymmetricWitness ==
  \E a, b \in Uids :
    /\ a # b /\ Befriended(a, b) /\ Befriended(b, a)
    /\ db.friendRequests[<<a, b>>].status = "accepted"
    /\ \E c \in Clients : friends[c] # << >>

AcceptEffects(d, a, b) ==
  /\ d.friendRequests[<<a, b>>].responded
  /\ d.friends[<<a, b>>].exists
  /\ d.friends[<<b, a>>].exists
  /\ d.chats[getChatId(a, b)].exists

AcceptTouches(a, b) ==
  \/ db'.friendRequests[<<a, b>>].status = "accepted" /\ db.friendRequests[<<a, b>>].status # "accepted"
  \/ db'.friends[<<a, b>>] # db.friends[<<a, b>>]
  \/ db'.friends[<<b, a>>] # db.friends[<<b, a>>]
  \/ db'.chats[getChatId(a, b)] # db.chats[getChatId(a, b)]

\* C2: acceptRequest is all-or-nothing.  A request never has status accepted while its
\* response stamp, either mirrored friend entry or the channel document is missing; and
\* every step that applies any effect of an accept (the status becoming accepted, a
\* friend entry or the channel being written) leaves all four in place, so that a
\* commit that fails changes nothing.
AcceptAllOrNothing ==
  /\ [](\A a, b \in Uids :
          db.friendRequests[<<a, b>>].status = "accepted" => AcceptEffects(db, a, b))
  /\ [][\A a, b \in Uids :
          AcceptTouches(a, b) =>
            \/ db'.friendRequests[<<a, b>>].status = "accepted" /\ AcceptEffects(db', a, b)
            \/ db'.friendRequests[<<b, a>>].status = "accepted" /\ AcceptEffects(db', b, a)]_vars

\* C2 witness: an accept has been committed: the request is accepted and stamped, both
\* friend entries and the channel exist.
AcceptAllOrNothingWitness ==
  \E a, b \in Uids :
    a # b /\ db.friendRequests[<<a, b>>].status = "accepted" /\ AcceptEffects(db, a, b)

\* C3: once a friend request's status is accepted or rejected, no step changes it (and
\* the record is never deleted).
TerminalStatesFinal ==
  [][\A p \in RequestIds :
       db.friendRequests[p].status \in {"accepted", "rejected"} =>
         db'.friendRequests[p].status = db.friendRequests[p].status]_vars

SendOver(c) == send[c].pc \in {"returned", "written"}

AtMostOneRecordPerPair ==
  \A c \in Clients : \A x, y \in incomingRequests[c] :
    (x.fromUid = y.fromUid /\ x.toUid = y.toUid) => x = y

SelfRequestRefused ==
  /\ \A c \in Clients :
       (send[c].uid # NoUid /\ db.users[send[c].uid].username = send[c].search) =>
         (send[c].pc = "returned" /\ friendError[c] = SelfRequest)
  /\ \A u \in Uids : db.friendRequests[RequestId(u, u)].status = "none"

\* C6: the step of sendFriendRequest that writes the request record A__B is never taken
\* while users/A/friends/B exists in the store.
SendNeverWritesToFriend ==
  [][\A c \in Clients :
       (send[c].pc = "write" /\ send'[c].pc = "written") =>
         ~db.friends[<<send[c].uid, send[c].target>>].exists]_vars

\* C7: a handle never comes to map to a second uid: once usernames/{handle} is written
\* no later registration changes it (the second registration of the handle fails with
\* HandleTaken), and a profile once written is not changed either.
HandleRegisteredOnce ==
  [][/\ \A h \in Handles : db.usernames[h].uid # NoUid => db'.usernames[h] = db.usernames[h]
     /\ \A u \in Uids : db.users[u].exists => db'.users[u] = db.users[u]]_vars

\* C8: in every reachable state a directory entry usernames/{handle} exists exactly
\* when the profile users/{uid} of its account exists.
DirectoryAndProfileTogether ==
  /\ \A h \in Handles :
       db.usernames[h].uid # NoUid => db.users[db.usernames[h].uid].exists
  /\ \A u \in Uids :
       db.users[u].exists => \E h \in Handles : db.usernames[h].uid = u

SessionChat(c) == activeChatId(currentUser[c], activeFriend[c])

Listening(c) == Subscribes(currentUser[c], fixedUsername[c], activeFriend[c])

NoWriteInFlight(chatId) ==
  \A c \in Clients : \A i \in 1..Len(post[c]) : post[c][i].chat # chatId

AscendingCreatedAt(list) ==
  \A i, j \in 1..Len(list) : i < j => list[i].createdAt <= list[j].createdAt

\* C9: when every post to a channel has been committed and every snapshot owed to its
\* listeners has been delivered, any two participants hold the same message list: all
\* the channel's messages, each once, in ascending order of the store's createdAt.
MessagesConverge ==
  \A c1, c2 \in Clients :
    ( /\ Listening(c1) /\ Listening(c2)
      /\ SessionChat(c1) = SessionChat(c2)
      /\ NoWriteInFlight(SessionChat(c1))
      /\ ~needsPush[c1] /\ ~needsPush[c2] ) =>
        /\ messages[c1] = messages[c2]
        /\ AscendingCreatedAt(messages[c1])
        /\ { messages[c1][i] : i \in 1..Len(messages[c1]) } = db.messages[SessionChat(c1)]
        /\ Len(messages[c1]) = Cardinality(db.messages[SessionChat(c1)])
        /\ \A i \in 1..Len(messages[c1]) : messages[c1][i].createdAt # NoTime

\* C9 witness: two clients of different accounts have converged on a list that holds
\* messages of both authors, the first in the list under the greater document id.
MessagesConvergeWitness ==
  \E c1, c2 \in Clients :
    /\ currentUser[c1] # currentUser[c2]
    /\ Listening(c1) /\ Listening(c2) /\ SessionChat(c1) = SessionChat(c2)
    /\ NoWriteInFlight(SessionChat(c1)) /\ ~needsPush[c1] /\ ~needsPush[c2]
    /\ Len(messages[c1]) >= 2
    /\ messages[c1][1].authorUid # messages[c1][2].authorUid
    /\ messages[c1][1].id > messages[c1][2].id
    /\ messages[c2] = messages[c1]

\* C10: no message record, committed or in flight, has an empty text, and a sendMessage
\* on a draft that is empty or only blanks changes neither the store nor the writes in
\* flight nor the draft.
BlankDraftRejected ==
  /\ [](/\ \A k \in ChatIds : \A m \in db.messages[k] : trimmedDraft(m.text) # EmptyText
        /\ \A c \in Clients : \A i \in 1..Len(post[c]) : trimmedDraft(post[c][i].text) # EmptyText)
  /\ [][\A c \in Clients :
          (trimmedDraft(draft[c]) = EmptyText /\ SendMessage(c)) =>
            (db' = db /\ post' = post /\ draft' = draft)]_vars

\* C10 witness: a draft of blanks only stands in the field of a session that could
\* send (signed in, handle loaded, a friend selected), while messages have been sent.
BlankDraftRejectedWitness ==
  \E c \in Clients :
    /\ Listening(c)
    /\ draft[c] # EmptyText /\ trimmedDraft(draft[c]) = EmptyText
    /\ db.messages[SessionChat(c)] # {}

\* C11: rejectRequest on a request whose status is rejected already leaves the status
\* rejected; and a rejectRequest changes no friend entry, no channel, no message and no
\* other request record (of its own record only the status and the response stamp).
RejectIdempotent ==
  [][\A c \in Clients : \A requestItem \in incomingRequests[c] :
       RejectRequest(c, requestItem) =>
         LET p == RequestId(requestItem.fromUid, requestItem.toUid)
         IN /\ db.friendRequests[p].status = "rejected" =>
                 db'.friendRequests[p].status = "rejected"
            /\ db'.friendRequests[p].fromUsername = db.friendRequests[p].fromUsername
            /\ db'.friendRequests[p].toUsername = db.friendRequests[p].toUsername
            /\ \A q \in RequestIds \ {p} : db'.friendRequests[q] = db.friendRequests[q]
            /\ db'.friends = db.friends
            /\ db'.chats = db.chats
            /\ db'.messages = db.messages]_vars

\* C11 witness: a rejectRequest has been applied to a request that was rejected
\* already, and a request is rejected.
RejectIdempotentWitness ==
  /\ "rejected again" \in happened
  /\ \E p \in RequestIds :
       db.friendRequests[p].status = "rejected" /\ db.friendRequests[p].responded

FriendOf(uid) == [uid |-> uid, username |-> db.users[uid].username]

\* C12: getChatId gives the same id for a pair in either order; every channel document
\* lies at the id that each of its two members computes as activeChatId for the other,
\* whichever of them sent the request; and a session whose active friend is a friend of
\* its account computes the id of the channel document of the two.
ChannelIdSymmetric ==
  /\ \A a, b \in Uids : a # b => getChatId(a, b) = getChatId(b, a)
  /\ \A k \in ChatIds :
       db.chats[k].exists =>
         /\ activeChatId(db.chats[k].members[1], FriendOf(db.chats[k].members[2])) = k
         /\ activeChatId(db.chats[k].members[2], FriendOf(db.chats[k].members[1])) = k
  /\ \A c \in Clients :
       (currentUser[c] # NoUid /\ activeFriend[c] # NoFriend
          /\ Befriended(currentUser[c], activeFriend[c].uid)) =>
         /\ db.chats[SessionChat(c)].exists
         /\ MembersOf(db.chats[SessionChat(c)]) = {currentUser[c], activeFriend[c].uid}

\* C12 witness: two sessions have each other as active friend, and the request between
\* them was sent by the account with the greater id.
ChannelIdSymmetricWitness ==
  \E c1, c2 \in Clients :
    /\ currentUser[c1] # NoUid /\ currentUser[c1] < currentUser[c2]
    /\ activeFriend[c1].uid = currentUser[c2]
    /\ activeFriend[c2].uid = currentUser[c1]
    /\ SessionChat(c1) = SessionChat(c2)
    /\ db.chats[SessionChat(c1)].members = << currentUser[c2], currentUser[c1] >>

FirstOrNone(list) == IF list = << >> THEN NoFriend ELSE list[1]

\* C13: a friends snapshot leaves the session with the account's friend list in the
\* store's order; a selected friend that is in the new list stays selected; otherwise
\* (not in it, or nothing selected) the first entry of the new list is selected, none
\* if it is empty; so right after the snapshot the active friend is none or in the list.
SelectionRevalidated ==
  [][\A c \in Clients :
       FriendsSnapshot(c) =>
         /\ friends'[c] = SortFriends(FriendDocs(currentUser[c]))
         /\ IF activeFriend[c] # NoFriend /\ activeFriend[c].uid \in FriendUids(friends'[c])
            THEN activeFriend'[c] = activeFriend[c]
            ELSE activeFriend'[c] = FirstOrNone(friends'[c])
         /\ \/ activeFriend'[c] = NoFriend
            \/ \E i \in 1..Len(friends'[c]) : friends'[c][i].uid = activeFriend'[c].uid]_vars

\* C13 witness: a friends snapshot has replaced a selected friend that was not in the
\* new list, and the session holds the list with its first entry selected.
SelectionRevalidatedWitness ==
  /\ "reselected" \in happened
  /\ \E c \in Clients :
       /\ currentUser[c] # NoUid
       /\ friends[c] # << >>
       /\ activeFriend[c] = friends[c][1]

\* C14: whenever a session is signed in as an account whose profile is stored, its
\* registration (if it has just registered) being complete, the session comes to hold
\* the username of users/{uid} as its handle, unless the account signs out first.
HandleEventuallyLoaded ==
  \A c \in Clients : \A u \in Uids :
    [](( /\ currentUser[c] = u
         /\ db.users[u].exists
         /\ ~RegInFlight(c) )
       => <>(fixedUsername[c] = db.users[u].username \/ currentUser[c] # u))

\* C15: whenever no account is signed in, the session's messages, friend list, incoming
\* requests, active friend and handle are empty, and no messages listener is attached:
\* none is owed a snapshot and no snapshot is in flight to one.
SignedOutIsClean ==
  \A c \in Clients :
    currentUser[c] = NoUid =>
      /\ messages[c] = << >>
      /\ friends[c] = << >>
      /\ incomingRequests[c] = {}
      /\ activeFriend[c] = NoFriend
      /\ fixedUsername[c] = EmptyText
      /\ ~needsPush[c]
      /\ pushed[c] = << >>

\* C16: every snapshot in flight to a session was sent for the channel its messages
\* listener is attached to now (none is in flight to a session without a listener),
\* and the snapshot a callback applies to the message list is one of the channel that
\* is active at that moment.
NoStalePush ==
  /\ [](\A c \in Clients : \A i \in 1..Len(pushed[c]) :
          Listening(c) /\ pushed[c][i].chat = SessionChat(c))
  /\ [][\A c \in Clients :
          DeliverPush(c) =>
            /\ Listening(c)
            /\ Head(pushed[c]).chat = SessionChat(c)
            /\ messages'[c] = Head(pushed[c]).docs]_vars

\* C16 witness: a detach has dropped a snapshot that was in flight, and the session has
\* since been delivered the messages of the channel it is attached to now.
NoStalePushWitness ==
  /\ "discarded" \in happened
  /\ \E c \in Clients :
       /\ Listening(c) /\ ~needsPush[c] /\ pushed[c] = << >>
       /\ messages[c] # << >>
       /\ messages[c] = ListenerView(db, post[c], currentUser[c], fixedUsername[c],
                                     activeFriend[c])

SendRecord(c) == db.friendRequests[RequestId(send[c].uid, send[c].target)]

\* C17: a sendFriendRequest call that has passed the friends check and reads a rejected
\* request record goes on to write; its write leaves the record of the pair pending (and
\* not responded); and a requests snapshot delivered to the recipient holds every
\* request to the recipient that is pending, so the request is in B's list again.
RejectedDoesNotBlock ==
  /\ [][\A c \in Clients :
          (SendExisting(c) /\ SendRecord(c).status = "rejected") => send'[c].pc = "write"]_vars
  /\ [][\A c \in Clients :
          SendWrite(c) =>
            /\ db'.friendRequests[RequestId(send[c].uid, send[c].target)].status = "pending"
            /\ ~db'.friendRequests[RequestId(send[c].uid, send[c].target)].responded
            /\ send'[c].pc = "written" /\ friendError'[c] = NoError]_vars
  /\ [][\A c \in Clients :
          RequestsSnapshot(c) =>
            \A a \in Uids :
              db.friendRequests[RequestId(a, currentUser[c])].status = "pending" =>
                \E item \in incomingRequests'[c] :
                  item.fromUid = a /\ item.toUid = currentUser[c]]_vars
  /\ [](\A c \in Clients : \A x, y \in incomingRequests[c] :
          (x.fromUid = y.fromUid /\ x.toUid = y.toUid) => x = y)

\* C17 witness: a call that read a rejected record has written, the record is pending,
\* and the recipient's session holds the request in its list again.
RejectedDoesNotBlockWitness ==
  \E c, r \in Clients :
    /\ send[c].pc = "written" /\ send[c].existing = "rejected"
    /\ send[c].target \notin send[c].friends
    /\ SendRecord(c).status = "pending"
    /\ currentUser[r] = send[c].target
    /\ \E item \in incomingRequests[r] : item.fromUid = send[c].uid

\* C18: no request between two accounts that are friends of each other is pending, in
\* either direction.
NoPendingBetweenFriends ==
  \A a, b \in Uids :
    (Befriended(a, b) /\ Befriended(b, a)) =>
      /\ db.friendRequests[RequestId(a, b)].status # "pending"
      /\ db.friendRequests[RequestId(b, a)].status # "pending"

AllPosts ==
  UNION { { [chat |-> k, authorUid |-> m.authorUid] : m \in db.messages[k] } : k \in ChatIds }
    \cup UNION { { [chat |-> post[c][i].chat, authorUid |-> post[c][i].authorUid] :
                    i \in 1..Len(post[c]) } : c \in Clients }

\* C19: every message record, committed or in flight, lies in a channel whose document
\* exists and whose members are the message's author and a friend of the author.  (No
\* friend entry and no channel is ever deleted, so this is as much as: at the time of
\* the write.)
MessagesOnlyToFriends ==
  \A m \in AllPosts :
    /\ db.chats[m.chat].exists
    /\ \E b \in Uids :
         /\ MembersOf(db.chats[m.chat]) = {m.authorUid, b}
         /\ m.chat = getChatId(m.authorUid, b)
         /\ Befriended(m.authorUid, b)

MessageIdsOf(c, chatId) ==
  { m.id : m \in db.messages[chatId] }
    \cup { post[c][i].id : i \in { j \in 1..Len(post[c]) : post[c][j].chat = chatId } }

\* C20: while a session has an active channel, every message in the list it holds is a
\* message of that channel (so the list is empty or a snapshot of the active channel).
MessagesOfActiveChannel ==
  \A c \in Clients :
    SessionChat(c) # << >> =>
      \A i \in 1..Len(messages[c]) : messages[c][i].id \in MessageIdsOf(c, SessionChat(c))

====
